---- MODULE Spec2Model ----
(***************************************************************************)
(* A model of @rccyx/scrypt (src/src/index.ts): password hashing on top of *)
(* Node's crypto.scrypt.  Text is modelled as a sequence of one-character  *)
(* strings, a Buffer as a sequence of bytes 0..255.  The Node primitives   *)
(* the code imports (scrypt, randomBytes, timingSafeEqual, Buffer's hex    *)
(* codec, String.split) are modelled by what they do.                      *)
(***************************************************************************)
EXTENDS Integers, Sequences, FiniteSets, Bags, TLC

VARIABLES input, calls, last

vars == <<input, calls, last>>

(***************************************************************************)
(* Bounds and program constants                                            *)
(***************************************************************************)

\* Number of async calls that may be awaiting their derivation at once.
MaxInFlight == 1

\* randomBytes(16)
SaltLen == 16

\* deriveKey(plaintext, salt, 64)
DefaultKeyLen == 64

\* The documented KeyLength type: 64 | 128 | 256 | 512 | 1024.
KeyLengths == {64, 128, 256, 512, 1024}

\* Key lengths a caller asks for: the documented ones and one outside them.
RequestedKeyLengths == KeyLengths \cup {100}

(***************************************************************************)
(* Buffer <-> hex text                                                     *)
(***************************************************************************)

HexDigits ==
  <<"0", "1", "2", "3", "4", "5", "6", "7", "8", "9", "a", "b", "c", "d", "e", "f">>

UpperHexDigits ==
  <<"0", "1", "2", "3", "4", "5", "6", "7", "8", "9", "A", "B", "C", "D", "E", "F">>

\* The value of each hex character (either case).
HexValue ==
  [c \in {HexDigits[k] : k \in 1..16} \cup {UpperHexDigits[k] : k \in 1..16} |->
     IF \E k \in 1..16 : HexDigits[k] = c
     THEN (CHOOSE k \in 1..16 : HexDigits[k] = c) - 1
     ELSE (CHOOSE k \in 1..16 : UpperHexDigits[k] = c) - 1]

\* A mutant of unhex: upper-case digits are not hex digits.
unhexLowerOnly(c) ==
  IF \E k \in 1..16 : HexDigits[k] = c THEN HexValue[c] ELSE -1

\* The value of one hex character, -1 when it is none.
unhex(c) == IF c \in DOMAIN HexValue THEN HexValue[c] ELSE -1

\* A mutant of toHex: bytes below 16 are written with one digit (no padding).
toHexNoPad(buf) ==
  LET RECURSIVE go(_, _)
      go(lo, hi) ==
        IF lo > hi THEN <<>>
        ELSE IF lo = hi
        THEN (IF buf[lo] < 16
              THEN <<HexDigits[buf[lo] + 1]>>
              ELSE <<HexDigits[(buf[lo] \div 16) + 1], HexDigits[(buf[lo] % 16) + 1]>>)
        ELSE go(lo, (lo + hi) \div 2) \o go(((lo + hi) \div 2) + 1, hi)
  IN  go(1, Len(buf))

\* buf.toString('hex'): two lower-case hex digits per byte.
toHex(buf) ==
  [i \in 1..(2 * Len(buf)) |->
     LET b == buf[(i + 1) \div 2]
     IN  IF i % 2 = 1 THEN HexDigits[(b \div 16) + 1] ELSE HexDigits[(b % 16) + 1]]

\* A mutant of fromHex: the two digits of a byte are read in the wrong order.
fromHexSwapped(text) ==
  LET pairs == Len(text) \div 2
      bad   == {j \in 1..pairs :
                  unhex(text[2 * j - 1]) < 0 \/ unhex(text[2 * j]) < 0}
      n     == IF bad = {} THEN pairs
               ELSE (CHOOSE j \in bad : \A k \in bad : j <= k) - 1
  IN  [i \in 1..n |-> unhex(text[2 * i - 1]) + 16 * unhex(text[2 * i])]

\* Buffer.from(text, 'hex'): decodes pairs of hex digits from the left and
\* stops at the first pair that is not two hex digits; a trailing single
\* character is dropped.  It never throws for a string.
fromHex(text) ==
  LET pairs == Len(text) \div 2
      bad   == {j \in 1..pairs :
                  unhex(text[2 * j - 1]) < 0 \/ unhex(text[2 * j]) < 0}
      n     == IF bad = {} THEN pairs
               ELSE (CHOOSE j \in bad : \A k \in bad : j <= k) - 1
  IN  [i \in 1..n |-> 16 * unhex(text[2 * i - 1]) + unhex(text[2 * i])]

(***************************************************************************)
(* String.prototype.split(':')                                             *)
(***************************************************************************)

\* The parts of text between the ':' characters, in order; always >= 1 part.
split(text) ==
  LET pos  == {i \in 1..Len(text) : text[i] = ":"}
      n    == Cardinality(pos)
      at(k) == IF k = 0 THEN 0
               ELSE IF k = n + 1 THEN Len(text) + 1
               ELSE CHOOSE p \in pos : Cardinality({q \in pos : q < p}) = k - 1
  IN  [k \in 1..(n + 1) |-> SubSeq(text, at(k - 1) + 1, at(k) - 1)]

(***************************************************************************)
(* The primitives imported from 'crypto'                                   *)
(***************************************************************************)

\* The UTF-8 code of a plaintext character.
CharCode(c) ==
  CASE c = "a" -> 97
    [] c = "A" -> 65
    [] c = " " -> 32
    [] OTHER   -> 63

\* A digest of a sequence of character codes or bytes, sensitive to the
\* position of each: the sum of i * (codes[i] + 1) over lo..hi, by halves.
RECURSIVE WeightedSum(_, _, _)
WeightedSum(codes, lo, hi) ==
  IF lo > hi THEN 0
  ELSE IF lo = hi THEN lo * (codes[lo] + 1)
  ELSE LET mid == (lo + hi) \div 2
       IN  WeightedSum(codes, lo, mid) + WeightedSum(codes, mid + 1, hi)

Digest(codes, h) == (h + WeightedSum(codes, 1, Len(codes))) % 251

\* scrypt / scryptSync with the default cost parameters: a deterministic
\* function of (password, salt, keylen) returning exactly keylen bytes.  An
\* empty salt and keylen = 0 are legal (keylen 0 yields the empty buffer).
\* Distinct passwords of the model give distinct keys of any length >= 1.
scrypt(password, salt, keylen) ==
  LET pw   == Digest([i \in 1..Len(password) |-> CharCode(password[i])], 7)
      st   == Digest(salt, 11)
      base == (pw + 5 * st) % 256
  IN  [i \in 1..keylen |-> (base + 29 * i) % 256]

\* randomBytes(n): the values one draw can return (two of the 256^n).
randomBytes(n) ==
  { [i \in 1..n |-> i - 1], [i \in 1..n |-> (37 * i + 200) % 256] }

\* A mutant of timingSafeEqual: only the lengths are compared.
timingSafeEqualLengthOnly(a, b) ==
  [threw |-> Len(a) # Len(b), value |-> Len(a) = Len(b)]

\* timingSafeEqual(a, b): throws a RangeError when the byte lengths differ,
\* otherwise tells whether the buffers hold the same bytes.
timingSafeEqual(a, b) ==
  IF Len(a) # Len(b)
  THEN [threw |-> TRUE, value |-> FALSE]
  ELSE [threw |-> FALSE, value |-> (a = b)]

(***************************************************************************)
(* The module's private functions                                          *)
(***************************************************************************)

\* A mutant of deriveKeySync: 64 bytes are derived whatever length is asked.
deriveKeySyncDefaultLen(plaintext, salt, keyLen) == scrypt(plaintext, salt, DefaultKeyLen)

\* A mutant of deriveKeySync: the plaintext is not passed on to scrypt.
deriveKeySyncNoPlaintext(plaintext, salt, keyLen) == scrypt(<<>>, salt, keyLen)

deriveKeySync(plaintext, salt, keyLen) == scrypt(plaintext, salt, keyLen)

\* A mutant of deriveKey: the salt is not passed on to scrypt.
deriveKeyNoSalt(plaintext, salt, keyLen) == scrypt(plaintext, <<>>, keyLen)

\* The value the promise of deriveKey resolves with.
deriveKey(plaintext, salt, keyLen) == scrypt(plaintext, salt, keyLen)

\* A mutant of serialize: the fields are written with nothing between them.
serializeNoSeparator(salt, key) == toHex(salt) \o toHex(key)

\* A mutant of serialize: the two fields are written in the wrong order.
serializeSwapped(salt, key) == toHex(key) \o <<":">> \o toHex(salt)

\* A mutant of serialize: the salt field is written from a zeroed buffer.
serializeZeroSalt(salt, key) ==
  toHex([i \in 1..Len(salt) |-> 0]) \o <<":">> \o toHex(key)

serialize(salt, key) == toHex(salt) \o <<":">> \o toHex(key)

Null == [isNull |-> TRUE, salt |-> <<>>, key |-> <<>>]

\* A mutant of deserialize: a part is refused only when it is missing
\* (undefined), not when it is the empty string.
deserializeUndefinedOnly(hashText) ==
  LET parts == split(hashText)
  IN  IF Len(parts) < 2 THEN Null
      ELSE [isNull |-> FALSE, salt |-> fromHex(parts[1]), key |-> fromHex(parts[2])]

\* const [saltHex, keyHex] = hash.split(':'): the first two parts, the rest
\* is dropped; keyHex is undefined when there is no ':'.  !x holds of
\* undefined and of the empty string.
deserialize(hashText) ==
  LET parts     == split(hashText)
      saltFalsy == parts[1] = <<>>
      keyFalsy  == Len(parts) < 2 \/ parts[2] = <<>>
  IN  IF saltFalsy \/ keyFalsy THEN Null
      ELSE [isNull |-> FALSE, salt |-> fromHex(parts[1]), key |-> fromHex(parts[2])]

(***************************************************************************)
(* The callers' inputs                                                     *)
(***************************************************************************)

\* Plaintexts: the empty one, and ones differing in case or in leading or
\* trailing whitespace.
Plaintexts == { <<>>, <<"a">>, <<"A">>, <<"a", " ">>, <<" ", "a">> }

\* The pairs (hashed plaintext, other plaintext) the runs use.
PlaintextPairs ==
  { <<<<>>, <<"a">>>>, <<<<"a">>, <<>>>>,
    <<<<"a">>, <<"A">>>>, <<<<"A">>, <<"a">>>>,
    <<<<"a">>, <<"a", " ">>>>, <<<<" ", "a">>, <<"a">>>> }

\* Records that no hash call of this module returned.
InvalidHashFormat ==
  <<"i", "n", "v", "a", "l", "i", "d", ":", "h", "a", "s", "h", ":",
    "f", "o", "r", "m", "a", "t">>
OnlySalt == <<"o", "n", "l", "y", "s", "a", "l", "t">>
KeyOnly == <<":", "k", "e", "y", "o", "n", "l", "y">>
SaltOnly == <<"s", "a", "l", "t", ":">>
NonHexRecord == <<"z", "z", ":", "z", "z">>
OddHexRecord == <<"a", "b", "c", ":", "a", "b", "c", "d">>
ThreeHexParts == <<"a", "b", ":", "c", "d", ":", "e", "f">>
OneByteKey == <<"0", "0", "f", "f", ":", "7", "a">>
\* A well-formed record whose key is the 100-byte derivation of "a".
LongKeyRecord ==
  LET salt == CHOOSE b \in randomBytes(SaltLen) : b[1] = 0
  IN  toHex(salt) \o <<":">> \o toHex(scrypt(<<"a">>, salt, 100))

\* A well-formed record whose key is the 128-byte derivation of "a".
Key128Record ==
  LET salt == CHOOSE b \in randomBytes(SaltLen) : b[1] = 0
  IN  toHex(salt) \o <<":">> \o toHex(scrypt(<<"a">>, salt, 128))

\* text with its hex letters a..f written in upper case.
toUpperCase(text) ==
  [i \in DOMAIN text |->
     IF \E k \in 11..16 : HexDigits[k] = text[i]
     THEN UpperHexDigits[CHOOSE k \in 11..16 : HexDigits[k] = text[i]]
     ELSE text[i]]

\* The token of "a" under the salt 00 01 .. 0f, its hex in upper case.
UpperCaseRecord ==
  LET salt == CHOOSE b \in randomBytes(SaltLen) : b[1] = 0
  IN  toUpperCase(toHex(salt) \o <<":">> \o toHex(scrypt(<<"a">>, salt, DefaultKeyLen)))

ForeignRecords ==
  { InvalidHashFormat, OnlySalt, KeyOnly, SaltOnly, NonHexRecord, OddHexRecord,
    ThreeHexParts, OneByteKey, LongKeyRecord, Key128Record, UpperCaseRecord }

(***************************************************************************)
(* State                                                                   *)
(*   input  the arguments the callers of this run use: the plaintext that  *)
(*          is hashed, another plaintext, the key length asked for, and a  *)
(*          foreign record (<<>> when the run verifies its own tokens)     *)
(*   calls  the bag of async calls awaiting their derivation               *)
(*   last   the most recently completed call and what it did               *)
(***************************************************************************)

NoCall ==
  [op |-> "none", plaintext |-> <<>>, keyLength |-> 0, record |-> <<>>,
   origin |-> "none", salts |-> <<>>, parsed |-> Null, kdf |-> <<>>,
   status |-> "none", token |-> <<>>, result |-> FALSE]

\* What a call that ran to its end leaves behind.
Completed(c, status, token, result) ==
  [op |-> c.op, plaintext |-> c.plaintext, keyLength |-> c.keyLength,
   record |-> c.record, origin |-> c.origin, salts |-> c.salts,
   parsed |-> c.parsed, kdf |-> c.kdf,
   status |-> status, token |-> token, result |-> result]

\* The arguments of one scrypt invocation, and whether it failed.
KdfCall(password, salt, keylen) ==
  [password |-> password, salt |-> salt, keylen |-> keylen, failed |-> FALSE]

\* The records a caller can pass to verify, each with the call it came from:
\* the token the last hash returned, the record just verified, or the run's
\* foreign record.
RecordsInHand ==
  (IF input.foreign # <<>>
   THEN {[record |-> input.foreign, origin |-> "foreign"]} ELSE {})
  \cup
  (IF last.op \in {"hash", "hashSync"} /\ last.status = "returned"
   THEN {[record |-> last.token, origin |-> last.op]} ELSE {})
  \cup
  (IF last.op \in {"verify", "verifySync"}
   THEN {[record |-> last.record, origin |-> last.origin]} ELSE {})

\* A run either hashes and verifies its own tokens or verifies a foreign
\* record.  The key length asked for is read by no function, so the lengths
\* other than the default are asked for with one pair of plaintexts only.
Init ==
  /\ \/ \E pq \in PlaintextPairs, len \in RequestedKeyLengths :
          /\ len = DefaultKeyLen \/ pq = <<<<"a">>, <<"A">>>>
          /\ input = [plain |-> pq[1], other |-> pq[2], keyLength |-> len,
                      foreign |-> <<>>]
     \/ \E p \in Plaintexts, r \in ForeignRecords :
          input = [plain |-> p, other |-> p, keyLength |-> DefaultKeyLen,
                   foreign |-> r]
  /\ calls = EmptyBag
  /\ last = NoCall

\* The call is suspended on its derivation.
Suspend(c) == calls' = calls (+) SetToBag({c})

\* The suspended call c is resumed.
Resume(c) == calls' = calls (-) SetToBag({c})

(***************************************************************************)
(* hash and hashSync.  The functions take the plaintext only: a key length *)
(* the caller asks for is bound to no parameter and is not read.           *)
(***************************************************************************)

\* A mutant of HashCall: scrypt is given another draw of randomBytes than the
\* salt that is kept for the token.
HashCallSecondDraw(op, p, salt) ==
  [op |-> op, plaintext |-> p, keyLength |-> input.keyLength, record |-> <<>>,
   origin |-> "none", salts |-> <<salt>>, parsed |-> Null,
   kdf |-> <<KdfCall(p, CHOOSE s \in randomBytes(SaltLen) : s # salt, DefaultKeyLen)>>]

\* A hash call on plaintext p, once its salt is drawn and scrypt is called.
HashCall(op, p, salt) ==
  [op |-> op, plaintext |-> p, keyLength |-> input.keyLength, record |-> <<>>,
   origin |-> "none", salts |-> <<salt>>, parsed |-> Null,
   kdf |-> <<KdfCall(p, salt, DefaultKeyLen)>>]

\* hash(plaintext) up to its await: the salt is drawn and the derivation
\* of a 64-byte key is started.
hash ==
  /\ input.foreign = <<>>
  /\ BagCardinality(calls) < MaxInFlight
  /\ \E salt \in randomBytes(SaltLen) : Suspend(HashCall("hash", input.plain, salt))
  /\ UNCHANGED <<input, last>>

\* A mutant of hashResume: the suspended call is cancelled, it ends with no
\* outcome.
hashResumeCancelled(c) ==
  /\ c.op = "hash"
  /\ Resume(c)
  /\ UNCHANGED <<input, last>>

\* hash after its await: the derived key arrives and the token is returned.
hashResume(c) ==
  /\ c.op = "hash"
  /\ LET key == deriveKey(c.kdf[1].password, c.kdf[1].salt, c.kdf[1].keylen)
     IN  last' = Completed(c, "returned", serialize(c.salts[1], key), FALSE)
  /\ Resume(c)
  /\ UNCHANGED input

hashSync ==
  /\ input.foreign = <<>>
  /\ \E salt \in randomBytes(SaltLen) :
       LET key == deriveKeySync(input.plain, salt, DefaultKeyLen)
       IN  last' = Completed(HashCall("hashSync", input.plain, salt), "returned",
                             serialize(salt, key), FALSE)
  /\ UNCHANGED <<input, calls>>

(***************************************************************************)
(* verify and verifySync                                                   *)
(***************************************************************************)

\* A mutant of Compared: a record that has just verified is spent, the next
\* comparison of it fails.
ComparedOnce(c, derived) ==
  LET eq == timingSafeEqual(c.parsed.key, derived)
  IN  IF eq.threw THEN Completed(c, "threw", <<>>, FALSE)
      ELSE Completed(c, "returned", <<>>,
                     eq.value /\ ~(last.op \in {"verify", "verifySync"} /\ last.result))

\* A mutant of Compared: the derived key goes through a buffer shared by the
\* calls in flight, and is lost when another call is in flight.
ComparedShared(c, derived) ==
  LET eq == timingSafeEqual(c.parsed.key, derived)
  IN  IF eq.threw THEN Completed(c, "threw", <<>>, FALSE)
      ELSE Completed(c, "returned", <<>>, eq.value /\ BagCardinality(calls) <= 1)

\* The outcome of the comparison that ends a verification.
Compared(c, derived) ==
  LET eq == timingSafeEqual(c.parsed.key, derived)
  IN  IF eq.threw THEN Completed(c, "threw", <<>>, FALSE)
      ELSE Completed(c, "returned", <<>>, eq.value)

\* A mutant of VerifyCall: scrypt is called whatever deserialize returned.
VerifyCallAlways(op, r, q, parsed) ==
  [op |-> op, plaintext |-> q, keyLength |-> 0, record |-> r.record,
   origin |-> r.origin, salts |-> <<>>, parsed |-> parsed,
   kdf |-> <<KdfCall(q, parsed.salt, Len(parsed.key))>>]

\* A mutant of VerifyCall: the derivation always asks for 64 bytes.
VerifyCallDefaultLen(op, r, q, parsed) ==
  [op |-> op, plaintext |-> q, keyLength |-> 0, record |-> r.record,
   origin |-> r.origin, salts |-> <<>>, parsed |-> parsed,
   kdf |-> IF parsed.isNull THEN <<>>
           ELSE <<KdfCall(q, parsed.salt, DefaultKeyLen)>>]

\* A verification call on record r with plaintext q, once deserialize has
\* returned parsed and, unless that is null, scrypt is called.
VerifyCall(op, r, q, parsed) ==
  [op |-> op, plaintext |-> q, keyLength |-> 0, record |-> r.record,
   origin |-> r.origin, salts |-> <<>>, parsed |-> parsed,
   kdf |-> IF parsed.isNull THEN <<>>
           ELSE <<KdfCall(q, parsed.salt, Len(parsed.key))>>]

\* verify({hash, plaintext}) up to its await, or to its return of false
\* when the record does not deserialize.
verify ==
  /\ BagCardinality(calls) < MaxInFlight
  /\ \E r \in RecordsInHand :
       LET parsed == deserialize(r.record)
       IN  \E q \in {input.plain, input.other} :
             LET c == VerifyCall("verify", r, q, parsed)
             IN  IF parsed.isNull
                 THEN /\ last' = Completed(c, "returned", <<>>, FALSE)
                      /\ UNCHANGED calls
                 ELSE /\ Suspend(c)
                      /\ UNCHANGED last
  /\ UNCHANGED input

\* verify after its await: the derived key arrives and is compared.
verifyResume(c) ==
  /\ c.op = "verify"
  /\ last' = Compared(c, deriveKey(c.kdf[1].password, c.kdf[1].salt,
                                   c.kdf[1].keylen))
  /\ Resume(c)
  /\ UNCHANGED input

verifySync ==
  /\ \E r \in RecordsInHand :
       LET parsed == deserialize(r.record)
       IN  \E q \in {input.plain, input.other} :
             LET c == VerifyCall("verifySync", r, q, parsed)
             IN  IF parsed.isNull
                 THEN last' = Completed(c, "returned", <<>>, FALSE)
                 ELSE last' = Compared(c, deriveKeySync(q, parsed.salt,
                                                        Len(parsed.key)))
  /\ UNCHANGED <<input, calls>>

Next ==
  \/ hash
  \/ \E c \in BagToSet(calls) : hashResume(c)
  \/ hashSync
  \/ verify
  \/ \E c \in BagToSet(calls) : verifyResume(c)
  \/ verifySync

Spec == Init /\ [][Next]_vars

(***************************************************************************)
(* Derivation failure.  scrypt can fail (scryptSync throws, the promise of *)
(* scryptAsync rejects); none of the four functions has a try / catch, so  *)
(* the error leaves the call.                                              *)
(***************************************************************************)

\* The call's scrypt invocation failed.
DerivationFailed(c) == [c EXCEPT !.kdf[1].failed = TRUE]

\* A mutant of Propagated: the error is caught and false is returned.
PropagatedAsFalse(c) == Completed(c, "returned", <<>>, FALSE)

\* The error thrown inside deriveKey / deriveKeySync leaves the call: the
\* sync functions throw, the promises of the async ones reject.
Propagated(c) == Completed(c, "threw", <<>>, FALSE)

hashReject(c) ==
  /\ c.op = "hash"
  /\ last' = Propagated(DerivationFailed(c))
  /\ Resume(c)
  /\ UNCHANGED input

hashSyncThrow ==
  /\ input.foreign = <<>>
  /\ \E salt \in randomBytes(SaltLen) :
       last' = Propagated(DerivationFailed(HashCall("hashSync", input.plain, salt)))
  /\ UNCHANGED <<input, calls>>

verifyReject(c) ==
  /\ c.op = "verify"
  /\ last' = Propagated(DerivationFailed(c))
  /\ Resume(c)
  /\ UNCHANGED input

verifySyncThrow ==
  /\ \E r \in RecordsInHand :
       LET parsed == deserialize(r.record)
       IN  /\ ~parsed.isNull
           /\ \E q \in {input.plain, input.other} :
                last' = Propagated(DerivationFailed(
                          VerifyCall("verifySync", r, q, parsed)))
  /\ UNCHANGED <<input, calls>>

NextFail ==
  \/ Next
  \/ \E c \in BagToSet(calls) : hashReject(c)
  \/ hashSyncThrow
  \/ \E c \in BagToSet(calls) : verifyReject(c)
  \/ verifySyncThrow

\* The runs in which derivations may fail: a caller that asks for the
\* default key length, with its own tokens or one of two foreign records.
InitFail ==
  /\ Init
  /\ input.keyLength = DefaultKeyLen
  /\ input.foreign \in {<<>>, OneByteKey, Key128Record}

SpecFail == InitFail /\ [][NextFail]_vars

(***************************************************************************)
(* Concurrent calls.  hash and verify keep nothing outside their own       *)
(* frame, so a caller may start a call while others are suspended; here    *)
(* one more than MaxInFlight, to have at least two in flight.              *)
(***************************************************************************)

hashConcurrent ==
  /\ input.foreign = <<>>
  /\ BagCardinality(calls) <= MaxInFlight
  /\ \E salt \in randomBytes(SaltLen) : Suspend(HashCall("hash", input.plain, salt))
  /\ UNCHANGED <<input, last>>

verifyConcurrent ==
  /\ BagCardinality(calls) <= MaxInFlight
  /\ \E r \in RecordsInHand :
       LET parsed == deserialize(r.record)
       IN  \E q \in {input.plain, input.other} :
             LET c == VerifyCall("verify", r, q, parsed)
             IN  IF parsed.isNull
                 THEN /\ last' = Completed(c, "returned", <<>>, FALSE)
                      /\ UNCHANGED calls
                 ELSE /\ Suspend(c)
                      /\ UNCHANGED last
  /\ UNCHANGED input

NextConcurrent ==
  \/ hashConcurrent
  \/ \E c \in BagToSet(calls) : hashResume(c)
  \/ verifyConcurrent
  \/ \E c \in BagToSet(calls) : verifyResume(c)

\* The runs with concurrent calls: a caller that asks for the default key
\* length, with its own tokens or one of two foreign records.
InitConcurrent ==
  /\ Init
  /\ input.keyLength = DefaultKeyLen
  /\ input.foreign \in {<<>>, OneByteKey, SaltOnly}

SpecConcurrent == InitConcurrent /\ [][NextConcurrent]_vars

(***************************************************************************)
(* Completion.  A suspended call is resumed by the event loop once its     *)
(* derivation has settled, whatever else is going on: each suspended call  *)
(* is resumed or rejected if it stays suspended (weak fairness per call).  *)
(***************************************************************************)

\* What tells one call from another: its function, arguments and salt.
CallKey(c) ==
  [op |-> c.op, plaintext |-> c.plaintext, salts |-> c.salts,
   record |-> c.record, origin |-> c.origin]

\* The plaintexts of the runs of SpecLive.
LivePlaintexts == { <<"a">>, <<"A">> }

\* The async calls the runs of SpecLive can make.
LiveCalls ==
  { [op |-> "hash", plaintext |-> <<"a">>, salts |-> <<s>>, record |-> <<>>,
     origin |-> "none"] : s \in randomBytes(SaltLen) }
  \cup
  { [op |-> "verify", plaintext |-> q, salts |-> <<>>,
     record |-> serialize(s, scrypt(<<"a">>, s, DefaultKeyLen)), origin |-> o] :
       q \in LivePlaintexts, s \in randomBytes(SaltLen), o \in {"hash", "hashSync"} }
  \cup
  { [op |-> "verify", plaintext |-> <<"a">>, salts |-> <<>>,
     record |-> OneByteKey, origin |-> "foreign"] }

\* The derivation of a suspended call with key k settles and the call goes on.
Settle(k) ==
  \E c \in BagToSet(calls) :
    /\ CallKey(c) = k
    /\ \/ hashReject(c) \/ verifyReject(c) \/ hashResume(c) \/ verifyResume(c)

InitLive ==
  /\ Init
  /\ input.keyLength = DefaultKeyLen
  /\ input.plain = <<"a">> /\ input.other \in LivePlaintexts
  /\ input.foreign \in {<<>>, OneByteKey}

SpecLive ==
  /\ InitLive /\ [][NextFail]_vars
  /\ \A k \in LiveCalls : WF_vars(Settle(k))

(***************************************************************************)
(* Properties                                                              *)
(***************************************************************************)

IsHash(c) == c.op \in {"hash", "hashSync"}
IsVerify(c) == c.op \in {"verify", "verifySync"}

\* The completed call verified a token that a hash call of this run returned
\* (every such token was hashed from input.plain).
VerifiedOwnToken == IsVerify(last) /\ last.origin \in {"hash", "hashSync"}

\* The number of ':' characters of a text.
Separators(text) == Cardinality({i \in 1..Len(text) : text[i] = ":"})

\* A part is a valid hex encoding: an even number of hex digits.
ValidHex(text) ==
  /\ Len(text) % 2 = 0
  /\ \A i \in 1..Len(text) : unhex(text[i]) >= 0

\* C1 (round trip): a token returned by hash for plaintext P, whatever the
\* supported key length asked for and whatever the salt drawn, verifies true
\* against P under verify, and a token returned by hashSync verifies true
\* against P under verifySync.
C1_RoundTrip ==
  ( /\ VerifiedOwnToken
    /\ input.keyLength \in KeyLengths
    /\ \/ last.op = "verify" /\ last.origin = "hash"
       \/ last.op = "verifySync" /\ last.origin = "hashSync"
    /\ last.plaintext = input.plain )
  => (last.status = "returned" /\ last.result = TRUE)

C1_Witness ==
  /\ last.op = "verify" /\ last.origin = "hash"
  /\ input.keyLength = 1024
  /\ last.plaintext = input.plain
  /\ last.record # <<>>
  /\ last.status = "returned" /\ last.result = TRUE

\* C2 (rejection): verifying a token hashed from P against a plaintext Q # P
\* returns false, provided the KDF gives P and Q distinct keys under the
\* token's salt and key length; Q may differ from P in letter case or in
\* leading or trailing whitespace only.
C2_Rejection ==
  ( /\ VerifiedOwnToken
    /\ last.plaintext # input.plain
    /\ last.kdf # <<>>
    /\ scrypt(input.plain, last.kdf[1].salt, last.kdf[1].keylen)
         # scrypt(last.plaintext, last.kdf[1].salt, last.kdf[1].keylen) )
  => (last.status = "returned" /\ last.result = FALSE)

C2_Witness ==
  /\ VerifiedOwnToken
  /\ input.plain = <<"a">> /\ last.plaintext = <<"A">>
  /\ last.kdf # <<>>
  /\ last.status = "returned" /\ last.result = FALSE

\* C3 (more than one separator): a record that splits into three or more
\* parts makes verify and verifySync return false, without throwing.
C3_ExtraPartsRejected ==
  (IsVerify(last) /\ Len(split(last.record)) >= 3)
  => (last.status = "returned" /\ last.result = FALSE)

\* C4 (missing parts): a record with no ':' or with an empty salt part or an
\* empty key part makes verify and verifySync return false, without throwing
\* and without a derivation.
C4_MissingPartsRejected ==
  ( /\ IsVerify(last)
    /\ LET parts == split(last.record)
       IN  Len(parts) < 2 \/ parts[1] = <<>> \/ parts[2] = <<>> )
  => (last.status = "returned" /\ last.result = FALSE /\ last.kdf = <<>>)

C4_Witness ==
  /\ IsVerify(last)
  /\ last.record \in {OnlySalt, KeyOnly, SaltOnly}
  /\ last.status = "returned" /\ last.result = FALSE

\* C5 (hex validation): for a two-part record whose salt part or key part is
\* not a valid hex encoding, decoding yields null and verify and verifySync
\* return false.
C5_NonHexRejected ==
  ( /\ IsVerify(last)
    /\ LET parts == split(last.record)
       IN  /\ Len(parts) = 2
           /\ parts[1] # <<>> /\ parts[2] # <<>>
           /\ ~ValidHex(parts[1]) \/ ~ValidHex(parts[2]) )
  => (last.parsed.isNull /\ last.status = "returned" /\ last.result = FALSE)

\* C6 (key-length allow-list): when the decoded key's length is not one of
\* 64, 128, 256, 512, 1024, verify and verifySync return false and start no
\* derivation.
C6_KeyLengthAllowList ==
  /\ ( /\ IsVerify(last)
       /\ ~last.parsed.isNull
       /\ Len(last.parsed.key) \notin KeyLengths )
     => (last.status = "returned" /\ last.result = FALSE /\ last.kdf = <<>>)
  /\ \A c \in BagToSet(calls) :
       (c.op = "verify" /\ Len(c.parsed.key) \notin KeyLengths) => c.kdf = <<>>

\* C7 (token shape): a token returned by hash or hashSync with the default
\* key length holds ':' exactly once, a salt part of 32 hex characters and a
\* key part of 128 hex characters.
C7_DefaultTokenShape ==
  (IsHash(last) /\ last.keyLength = DefaultKeyLen /\ last.status = "returned")
  => /\ Separators(last.token) = 1
     /\ LET parts == split(last.token)
        IN  /\ Len(parts[1]) = 32 /\ ValidHex(parts[1])
            /\ Len(parts[2]) = 128 /\ ValidHex(parts[2])

C7_Witness ==
  /\ last.op = "hash" /\ last.keyLength = DefaultKeyLen
  /\ last.status = "returned"
  /\ Separators(last.token) = 1
  /\ Len(last.token) = 32 + 1 + 128

\* C8 (selectable key length): the key part of a token returned by hash or
\* hashSync called with key length L in {64, 128, 256, 512, 1024} decodes to
\* exactly L bytes.
C8_RequestedKeyLength ==
  (IsHash(last) /\ last.keyLength \in KeyLengths /\ last.status = "returned")
  => Len(fromHex(split(last.token)[2])) = last.keyLength

\* C9 (invalid key length): hash and hashSync called with a key length
\* outside {64, 128, 256, 512, 1024} fail before a salt is drawn and before
\* any derivation, and return no token.
C9_InvalidKeyLengthRejected ==
  /\ (IsHash(last) /\ last.keyLength \notin KeyLengths)
     => /\ last.status = "threw"
        /\ last.salts = <<>> /\ last.kdf = <<>> /\ last.token = <<>>
  /\ \A c \in BagToSet(calls) : c.op = "hash" => c.keyLength \in KeyLengths

\* C10 (cross-mode): a token returned by hashSync for plaintext P verifies
\* true against P under verify, and a token returned by hash verifies true
\* against P under verifySync.
C10_CrossMode ==
  ( /\ VerifiedOwnToken
    /\ \/ last.op = "verify" /\ last.origin = "hashSync"
       \/ last.op = "verifySync" /\ last.origin = "hash"
    /\ last.plaintext = input.plain )
  => (last.status = "returned" /\ last.result = TRUE)

C10_Witness ==
  /\ last.op = "verifySync" /\ last.origin = "hash"
  /\ last.plaintext = input.plain
  /\ last.record # <<>>
  /\ last.status = "returned" /\ last.result = TRUE


\* What verifySync returns for a record and a plaintext.
VerifySyncOutcome(r, q) ==
  LET parsed == deserialize(r)
      c      == VerifyCall("verifySync", [record |-> r, origin |-> "none"], q, parsed)
  IN  IF parsed.isNull THEN Completed(c, "returned", <<>>, FALSE)
      ELSE Compared(c, deriveKeySync(q, parsed.salt, Len(parsed.key)))

\* The async verifications in flight on a token a hash call of this run
\* returned.
PendingOwnVerify ==
  {c \in BagToSet(calls) : c.op = "verify" /\ c.origin \in {"hash", "hashSync"}}

\* C11 (salt uniqueness): two tokens hashed from the same plaintext by calls
\* whose salt draws differ are different tokens with different salt parts,
\* and each verifies true against the plaintext.  (The earlier token is the
\* one a verification in flight holds, the later one the token just returned.)
C11_SaltUniqueness ==
  \A c \in PendingOwnVerify :
    ( /\ IsHash(last) /\ last.status = "returned"
      /\ c.parsed.salt # last.salts[1] )
    => /\ c.record # last.token
       /\ split(c.record)[1] # split(last.token)[1]
       /\ VerifySyncOutcome(c.record, input.plain).result = TRUE
       /\ VerifySyncOutcome(last.token, input.plain).result = TRUE

C11_Witness ==
  \E c \in PendingOwnVerify :
    /\ IsHash(last) /\ last.status = "returned"
    /\ last.plaintext = input.plain
    /\ c.parsed.salt # last.salts[1]
    /\ c.record # last.token


\* C12 (empty plaintext): hash and hashSync of the empty plaintext return a
\* well-formed token (it deserializes to the drawn salt and a 64-byte key);
\* verifying that token returns true against the empty plaintext and false
\* against a non-empty one.
C12_EmptyPlaintext ==
  input.plain = <<>> =>
    /\ IsHash(last) =>
         /\ last.status = "returned"
         /\ Separators(last.token) = 1
         /\ ~deserialize(last.token).isNull
         /\ deserialize(last.token).salt = last.salts[1]
         /\ Len(deserialize(last.token).key) = DefaultKeyLen
    /\ VerifiedOwnToken =>
         /\ last.status = "returned"
         /\ last.result = (last.plaintext = <<>>)

C12_Witness ==
  /\ input.plain = <<>>
  /\ VerifiedOwnToken
  /\ last.op = "verifySync" /\ last.origin = "hashSync"
  /\ last.plaintext # <<>>
  /\ last.status = "returned" /\ last.result = FALSE


\* C14 (derivation failure): when the scrypt invocation of a hash, hashSync,
\* verify or verifySync call fails, the call fails: it returns neither a
\* token nor a boolean.
C14_FailurePropagates ==
  (last.kdf # <<>> /\ last.kdf[1].failed)
  => (last.status = "threw" /\ last.token = <<>> /\ last.result = FALSE)

C14_Witness ==
  /\ last.op = "verify"
  /\ last.kdf # <<>> /\ last.kdf[1].failed
  /\ last.status = "threw"


\* C15 (repeatable verification): a verify (or verifySync) of a record and
\* a plaintext that follows a verify (verifySync) of the same record and
\* plaintext ends the same way with the same boolean, and that boolean is
\* true when the record is a token of hash and the plaintext the hashed one.
C15_Repeatable ==
  [][ ( /\ IsVerify(last) /\ last'.op = last.op
        /\ last'.record = last.record
        /\ last'.plaintext = last.plaintext )
      => /\ last'.status = last.status
         /\ last'.result = last.result
         /\ (last.origin \in {"hash", "hashSync"} /\ last.plaintext = input.plain)
              => last'.result = TRUE ]_vars

\* A verify has returned true and a second verify of the same record and
\* plaintext is under way.
C15_Witness ==
  /\ last.op = "verify" /\ last.status = "returned" /\ last.result = TRUE
  /\ last.origin = "hash"
  /\ \E c \in BagToSet(calls) :
       c.op = "verify" /\ c.record = last.record /\ c.plaintext = last.plaintext


\* C16 (case-insensitive decoding): the token hash returns is written in
\* lower-case hex; written in upper-case hex it decodes to the same salt and
\* key and verifies, for every plaintext, with the same result (true for
\* the hashed plaintext).
C16_CaseInsensitiveDecode ==
  /\ (IsHash(last) /\ last.status = "returned")
     => /\ \A i \in DOMAIN last.token :
             last.token[i] = ":" \/ \E k \in 1..16 : HexDigits[k] = last.token[i]
        /\ LET upper == toUpperCase(last.token)
           IN  /\ upper # last.token
               /\ deserialize(upper) = deserialize(last.token)
               /\ \A q \in {input.plain, input.other} :
                    LET outcome == VerifySyncOutcome(upper, q)
                    IN  /\ outcome.status = "returned"
                        /\ outcome.result = VerifySyncOutcome(last.token, q).result
                        /\ outcome.result = (q = input.plain)
               /\ (last.plaintext = <<"a">> /\ last.salts[1][1] = 0)
                    => upper = UpperCaseRecord
  /\ (IsVerify(last) /\ last.record = UpperCaseRecord)
     => /\ last.status = "returned"
        /\ last.result = (last.plaintext = <<"a">>)

C16_Witness ==
  /\ last.op = "verify" /\ last.record = UpperCaseRecord
  /\ last.plaintext = <<"a">>
  /\ last.status = "returned" /\ last.result = TRUE


\* The record is <hex>:<hex>, with a salt of at least one byte and a key of
\* one of the recognised lengths.
WellFormedRecord(r) ==
  /\ Separators(r) = 1
  /\ ValidHex(split(r)[1]) /\ ValidHex(split(r)[2])
  /\ Len(fromHex(split(r)[1])) > 0
  /\ Len(fromHex(split(r)[2])) \in KeyLengths

\* C17 (what verification computes): for a record <salt-hex>:<key-hex> with
\* a key of a recognised length and any plaintext Q, verify and verifySync
\* call scrypt once, with Q, the decoded salt and the decoded key's length,
\* and return true exactly when the derived bytes equal the decoded key.
C17_VerifyIsKdfEquality ==
  (IsVerify(last) /\ WellFormedRecord(last.record))
  => LET salt == fromHex(split(last.record)[1])
         key  == fromHex(split(last.record)[2])
     IN  /\ last.kdf = <<KdfCall(last.plaintext, salt, Len(key))>>
         /\ last.status = "returned"
         /\ last.result = (scrypt(last.plaintext, salt, Len(key)) = key)

C17_Witness ==
  /\ last.op = "verify" /\ last.record = Key128Record
  /\ last.kdf # <<>> /\ last.kdf[1].keylen = 128
  /\ last.status = "returned" /\ last.result = TRUE


\* C18 (derivation preconditions): every scrypt invocation of hash,
\* hashSync, verify and verifySync has a salt of at least one byte and a key
\* length of at least one, and no verification of a record whose decoded key
\* is empty returns true.
C18_KdfPreconditions ==
  /\ \A c \in BagToSet(calls) \cup {last} :
       \A i \in DOMAIN c.kdf :
         Len(c.kdf[i].salt) > 0 /\ c.kdf[i].keylen > 0
  /\ (IsVerify(last) /\ last.parsed.key = <<>>) => last.result = FALSE


\* The (salt, key) pairs at hand in a state: the salt and key of a returned
\* token, and what the records under verification decoded to.
BufferPairs ==
  (IF IsHash(last) /\ last.status = "returned"
   THEN {[salt |-> last.salts[1],
          key  |-> scrypt(last.plaintext, last.salts[1], DefaultKeyLen)]}
   ELSE {})
  \cup
  {[salt |-> c.parsed.salt, key |-> c.parsed.key] :
     c \in {d \in BagToSet(calls) \cup {last} : IsVerify(d) /\ ~d.parsed.isNull}}

\* C19 (codec round trip): deserialize(serialize(salt, key)) is (salt, key)
\* for every salt and key of at least one byte, and a token returned by hash
\* is the serialization of what it deserializes to.
C19_CodecRoundTrip ==
  /\ \A b \in BufferPairs :
       (b.salt # <<>> /\ b.key # <<>>)
       => deserialize(serialize(b.salt, b.key))
            = [isNull |-> FALSE, salt |-> b.salt, key |-> b.key]
  /\ (IsHash(last) /\ last.status = "returned")
     => LET parsed == deserialize(last.token)
        IN  /\ ~parsed.isNull
            /\ serialize(parsed.salt, parsed.key) = last.token

C19_Witness ==
  /\ last.op = "hash" /\ last.status = "returned"
  /\ deserialize(last.token).salt = last.salts[1]
  /\ Len(deserialize(last.token).key) = DefaultKeyLen
  /\ \E c \in BagToSet(calls) : IsVerify(c) /\ c.record = last.token


\* C20 (sync / async equivalence): a verify and a verifySync of the same
\* record and plaintext, one after the other in either order, end the same
\* way with the same boolean; a hash and a hashSync of the same plaintext
\* that drew the same salt return the same token; and what verify and hash
\* end with is what verifySync and hashSync compute from the same arguments.
C20_SyncAsyncEquivalent ==
  [][ /\ ( /\ IsVerify(last) /\ IsVerify(last') /\ last'.op # last.op
           /\ last'.record = last.record
           /\ last'.plaintext = last.plaintext )
         => (last'.status = last.status /\ last'.result = last.result)
      /\ ( /\ IsHash(last) /\ IsHash(last') /\ last'.op # last.op
           /\ last'.plaintext = last.plaintext
           /\ last'.salts = last.salts )
         => (last'.status = last.status /\ last'.token = last.token)
      /\ (last'.op = "verify" /\ last' # last /\ ~last'.parsed.isNull)
         => LET sync == Compared(last', deriveKeySync(last'.plaintext,
                                                      last'.parsed.salt,
                                                      Len(last'.parsed.key)))
            IN  last'.status = sync.status /\ last'.result = sync.result
      /\ (last'.op = "hash" /\ last' # last)
         => last'.token
              = serialize(last'.salts[1],
                          deriveKeySync(last'.plaintext, last'.salts[1], DefaultKeyLen))
    ]_vars

\* A verifySync has returned true and a verify of the same record and
\* plaintext is under way.
C20_Witness ==
  /\ last.op = "verifySync" /\ last.status = "returned" /\ last.result = TRUE
  /\ \E c \in BagToSet(calls) :
       c.op = "verify" /\ c.record = last.record /\ c.plaintext = last.plaintext


\* C21 (concurrent independence): whatever other hash and verify calls are
\* in flight and in whatever order they complete, the call that completes
\* ends as it would have alone: a hash with the token of its own salt and
\* plaintext, which verifies against that plaintext, a verify with the
\* result for its own record and plaintext; and the calls still in flight
\* are left as they were.
C21_ConcurrentIndependence ==
  [][ /\ BagCardinality(calls') < BagCardinality(calls)
         => \E c \in BagToSet(calls) : calls' = calls (-) SetToBag({c})
      /\ \A c \in BagToSet(calls) :
           (calls' = calls (-) SetToBag({c}))
           => /\ last'.op = c.op
              /\ last'.plaintext = c.plaintext /\ last'.record = c.record
              /\ c.op = "hash"
                 => LET token == serialize(c.salts[1],
                                   deriveKeySync(c.plaintext, c.salts[1], DefaultKeyLen))
                    IN  /\ last'.status = "returned" /\ last'.token = token
                        /\ VerifySyncOutcome(token, c.plaintext).result = TRUE
              /\ c.op = "verify"
                 => LET alone == VerifySyncOutcome(c.record, c.plaintext)
                    IN  last'.status = alone.status /\ last'.result = alone.result
    ]_vars

\* A hash and a verify of the token of an earlier hash are in flight together.
C21_Witness ==
  /\ BagCardinality(calls) >= 2
  /\ last.op = "hash" /\ last.status = "returned"
  /\ \E h, v \in BagToSet(calls) :
       /\ h.op = "hash" /\ h.salts # last.salts
       /\ v.op = "verify" /\ v.record = last.token /\ v.plaintext = input.other


\* C22 (verify ordering): a verify or verifySync call decodes its record
\* first.  When the record decodes to nothing the call returns false, calls
\* scrypt not at all and is never suspended; otherwise it calls scrypt once,
\* with the decoded salt and the decoded key's length, and an async verify
\* ends only in the step that resumes it from that derivation.
C22_VerifyOrdering ==
  [][ /\ calls' # calls
         => \A c \in BagToSet(calls') :
              c.op = "verify"
              => LET parsed == deserialize(c.record)
                 IN  /\ ~parsed.isNull
                     /\ c.kdf = <<KdfCall(c.plaintext, parsed.salt, Len(parsed.key))>>
      /\ (last' # last /\ IsVerify(last'))
         => LET parsed == deserialize(last'.record)
            IN  IF parsed.isNull
                THEN /\ last'.kdf = <<>>
                     /\ last'.status = "returned" /\ last'.result = FALSE
                     /\ calls' = calls
                ELSE /\ last'.kdf
                          = <<KdfCall(last'.plaintext, parsed.salt, Len(parsed.key))>>
                     /\ last'.op = "verify"
                        => \E c \in BagToSet(calls) :
                             /\ c.op = "verify" /\ c.kdf = last'.kdf
                             /\ c.record = last'.record
                             /\ calls' = calls (-) SetToBag({c})
    ]_vars

C22_Witness ==
  /\ last.op = "verify" /\ last.record = OneByteKey
  /\ Len(last.kdf) = 1
  /\ last.kdf[1].salt = <<0, 255>> /\ last.kdf[1].keylen = 1
  /\ last.status = "returned"


\* C23 (hash ordering): a hash or hashSync call draws one 16-byte salt and
\* makes one scrypt call, with the plaintext, that salt and 64; the token it
\* returns holds that same salt and the key that call derived.
C23_HashOrdering ==
  /\ \A c \in BagToSet(calls) \cup {last} :
       IsHash(c)
       => /\ Len(c.salts) = 1
          /\ Len(c.salts[1]) = SaltLen /\ c.salts[1] \in randomBytes(SaltLen)
          /\ Len(c.kdf) = 1
          /\ c.kdf[1].password = c.plaintext
          /\ c.kdf[1].salt = c.salts[1]
          /\ c.kdf[1].keylen = DefaultKeyLen
  /\ IsHash(last)
     => /\ last.status = "returned"
        /\ Separators(last.token) = 1
        /\ fromHex(split(last.token)[1]) = last.kdf[1].salt
        /\ fromHex(split(last.token)[2])
             = scrypt(last.kdf[1].password, last.kdf[1].salt, last.kdf[1].keylen)

C23_Witness ==
  /\ last.op = "hashSync" /\ last.status = "returned"
  /\ last.salts[1][1] # 0
  /\ fromHex(split(last.token)[1]) = last.kdf[1].salt
  /\ \E c \in BagToSet(calls) : c.op = "hash" /\ c.kdf[1].salt = c.salts[1]


Pending(k) == \E c \in BagToSet(calls) : CallKey(c) = k

\* The last call to end is one with key k: it resolved or rejected.
Ended(k) == CallKey(last) = k /\ last.status \in {"returned", "threw"}

\* C24 (completion): an async hash or verify call that is suspended on its
\* derivation ends, resolved or rejected, once the derivation settles; and
\* an async call that made a derivation ends only in the step that takes it
\* out of the suspended calls, never before.
C24_Completion ==
  /\ [](\A c \in BagToSet(calls) : CallKey(c) \in LiveCalls)
  /\ \A k \in LiveCalls : (Pending(k) /\ ~Ended(k)) ~> Ended(k)
  /\ [][ (last' # last /\ last'.op \in {"hash", "verify"} /\ last'.kdf # <<>>)
         => \E c \in BagToSet(calls) :
              CallKey(c) = CallKey(last') /\ calls' = calls (-) SetToBag({c}) ]_vars

\* A suspended verify has been rejected, and a hash is suspended.
C24_Witness ==
  /\ last.op = "verify" /\ last.status = "threw"
  /\ CallKey(last) \in LiveCalls
  /\ \E c \in BagToSet(calls) : c.op = "hash" /\ CallKey(c) \in LiveCalls


\* C25 (equal lengths at the comparison): in a verify or verifySync call
\* that called scrypt, the derived key is as long as the decoded key, so
\* timingSafeEqual does not throw and the call returns; it returns false
\* when the two keys, of one length, differ.
C25_EqualLengthComparison ==
  /\ \A c \in BagToSet(calls) :
       c.op = "verify"
       => Len(deriveKey(c.kdf[1].password, c.kdf[1].salt, c.kdf[1].keylen))
            = Len(c.parsed.key)
  /\ (IsVerify(last) /\ last.kdf # <<>>)
     => LET derived == scrypt(last.kdf[1].password, last.kdf[1].salt,
                              last.kdf[1].keylen)
        IN  /\ Len(derived) = Len(last.parsed.key)
            /\ last.status = "returned"
            /\ derived # last.parsed.key => last.result = FALSE

C25_Witness ==
  /\ last.op = "verifySync" /\ last.record = Key128Record
  /\ Len(last.parsed.key) = 128
  /\ last.plaintext # <<"a">>
  /\ last.status = "returned" /\ last.result = FALSE


\* text is buf in hex: two lower-case digits per byte, high digit first.
IsHexOf(text, buf) ==
  /\ Len(text) = 2 * Len(buf)
  /\ \A i \in 1..Len(buf) :
       /\ text[2 * i - 1] = HexDigits[(buf[i] \div 16) + 1]
       /\ text[2 * i] = HexDigits[(buf[i] % 16) + 1]

\* C26 (serialize): for every salt and key at hand, empty ones included,
\* serialize(salt, key) is the hex of the salt, one ':' and the hex of the
\* key, two digits per byte; and the token a hash call returns is that text
\* for its salt and derived key.
C26_SerializeTotal ==
  /\ \A b \in BufferPairs :
       LET text == serialize(b.salt, b.key)
       IN  /\ Len(text) = 2 * Len(b.salt) + 1 + 2 * Len(b.key)
           /\ IsHexOf(SubSeq(text, 1, 2 * Len(b.salt)), b.salt)
           /\ text[2 * Len(b.salt) + 1] = ":"
           /\ IsHexOf(SubSeq(text, 2 * Len(b.salt) + 2, Len(text)), b.key)
           /\ Separators(text) = 1
  /\ (IsHash(last) /\ last.status = "returned")
     => last.token
          = serialize(last.salts[1],
                      scrypt(last.plaintext, last.salts[1], DefaultKeyLen))

\* A hash call has returned the serialization of the salt 00 01 .. 0f and
\* its derived key.
C26_Witness ==
  /\ last.op = "hash" /\ last.status = "returned"
  /\ last.salts[1][1] = 0
  /\ IsHexOf(SubSeq(last.token, 1, 2 * SaltLen), last.salts[1])
  /\ last.token[2 * SaltLen + 1] = ":"
  /\ Len(last.token) = 2 * SaltLen + 1 + 2 * DefaultKeyLen

====
